---- MODULE Spec2Model ----
(***************************************************************************)
(* State-machine model of src/src/DataSource.ts: the Finnhub data source   *)
(* of a dashboard host.  One instance owns the list of streaming sockets;  *)
(* query() either returns a lazily subscribed merged stream of trade ticks *)
(* (one WebSocket per target) or a promise joining one REST request per    *)
(* target.                                                                 *)
(*                                                                         *)
(* JavaScript values: a string that can share a slot with an object is     *)
(* written Str(s) = [str |-> s]; an object is a record; an absent property *)
(* is a field missing from the record; a symbol is a sequence of           *)
(* characters so that toUpperCase is computed.                             *)
(***************************************************************************)
EXTENDS Integers, Sequences, FiniteSets, TLC

VARIABLES
    batches,   \* one record per call of query(), in call order
    sockets,   \* this.sockets: the WebSocket objects, in push order
    console,   \* what was written to the console, counted per kind
    probes,    \* one record per call of testDatasource(), in call order
    calls      \* direct calls of constructQuery and tsResponse, with results

vars == <<batches, sockets, console, probes, calls>>

(***************************************************************************)
(* Bounds of the model.                                                    *)
(***************************************************************************)
MaxQueries == 2        \* calls of query()
MaxSockets == 2        \* sockets ever opened
MaxMessages == 2       \* inbound messages, in total
MaxErrors == 1         \* error events, in total
MaxTicks == 1002       \* inbound trades of the rolling-buffer specification
MaxProbes == 3         \* calls of testDatasource()
MaxLen == 2            \* candles in a candle payload

(***************************************************************************)
(* Program constants.                                                      *)
(***************************************************************************)
capacity == 1000       \* CircularDataFrame({append: 'tail', capacity: 1000})
GoingAway == 1001      \* socket.close(1001)

Str(s) == [str |-> s]

\* The elements of an array.
Range(seq) == { seq[i] : i \in DOMAIN seq }

(***************************************************************************)
(* String.prototype.toUpperCase over the letters the symbols use.          *)
(***************************************************************************)
LowerChars == <<"a", "l", "p", "s", "t">>
UpperChars == <<"A", "L", "P", "S", "T">>

UpperChar(c) ==
    IF \E i \in DOMAIN LowerChars : LowerChars[i] = c
    THEN UpperChars[CHOOSE i \in DOMAIN LowerChars : LowerChars[i] = c]
    ELSE c

toUpperCase(s) == [i \in DOMAIN s |-> UpperChar(s[i])]

\* A unix() that keeps the milliseconds.
unix_Millis(ms) == ms

(***************************************************************************)
(* moment.unix(): an instant in milliseconds as whole unix seconds.        *)
(***************************************************************************)
unix(ms) == ms \div 1000

(***************************************************************************)
(* Targets a caller can put in a batch (MyQuery).  type stands for         *)
(* type.value and metric for metric.value.                                 *)
(***************************************************************************)
aapl == <<"a", "a", "p", "l">>
tsla == <<"T", "s", "l", "a">>

tQuoteA == [refId |-> Str("A"), symbol |-> aapl, type |-> "quote"]
tQuoteB == [refId |-> Str("B"), symbol |-> tsla, type |-> "quote"]
tCandle == [refId |-> Str("A"), symbol |-> aapl, type |-> "candle", resolution |-> "D"]
tMetric == [refId |-> Str("B"), symbol |-> tsla, type |-> "metric", metric |-> "price"]
tEarnings == [refId |-> Str("B"), symbol |-> aapl, type |-> "earnings"]
tFree == [refId |-> Str("C"), type |-> "profile", queryText |-> "stock/peers?symbol=AAPL"]
tBare == [refId |-> Str("C")]

StreamPool == { <<tQuoteA>>, <<tQuoteB, tCandle>> }

RestPool == { <<tCandle, tMetric>>, <<tFree, tEarnings>>, <<tBare, tQuoteA>> }

BatchPool == StreamPool \cup RestPool

RangePool == { [from |-> 1500, to |-> 3999] }

(***************************************************************************)
(* types.ts: the defaults spread under every target.                       *)
(***************************************************************************)
defaultQuery == [type |-> "profile"]

\* { ...defaultQuery, ...target }
WithDefaults(target) ==
    [k \in DOMAIN defaultQuery \cup DOMAIN target |->
        IF k \in DOMAIN target THEN target[k] ELSE defaultQuery[k]]

\* An object literal drops nothing: a property whose value is undefined is
\* modelled as a missing field.
Prop(obj, k, name) == IF k \in DOMAIN obj THEN name :> obj[k] ELSE <<>>

(***************************************************************************)
(* constructQuery(target, range)                                           *)
(***************************************************************************)
constructQuery(target, range) ==
    LET symbol == IF "symbol" \in DOMAIN target
                  THEN "symbol" :> toUpperCase(target.symbol) ELSE <<>>
        refId == [target |-> target]
        type == IF "type" \in DOMAIN target THEN target.type ELSE "undefined"
    IN  CASE type = "candle" ->
               symbol @@ Prop(target, "resolution", "resolution")
                 @@ [from |-> unix(range.from), to |-> unix(range.to), refId |-> refId]
          [] type = "metric" ->
               symbol @@ Prop(target, "metric", "metric") @@ [refId |-> refId]
          [] OTHER -> symbol @@ [refId |-> refId]

(***************************************************************************)
(* CircularDataFrame({append: 'tail', capacity}) with the fields ts and    *)
(* value: a ring of rows.  Below capacity add pushes; at capacity it       *)
(* overwrites the slot at index and advances index around the ring.        *)
(***************************************************************************)
NewFrame(refId) ==
    [refId |-> refId, fields |-> <<"ts", "value">>, buffer |-> <<>>, index |-> 0]

\* An add that overwrites the slot at index but leaves index where it is.
frame_add_NoAdvance(frame, row) ==
    IF Len(frame.buffer) < capacity
    THEN [frame EXCEPT !.buffer = Append(@, row)]
    ELSE [frame EXCEPT !.buffer[frame.index + 1] = row]

frame_add(frame, row) ==
    IF Len(frame.buffer) < capacity
    THEN [frame EXCEPT !.buffer = Append(@, row)]
    ELSE [frame EXCEPT !.buffer[frame.index + 1] = row,
                       !.index = (frame.index + 1) % Len(frame.buffer)]

\* The rows as a reader sees them: get(i) = buffer[(i + index) % length].
FrameValues(frame) ==
    [i \in 1..Len(frame.buffer) |->
        frame.buffer[((i - 1 + frame.index) % Len(frame.buffer)) + 1]]

(***************************************************************************)
(* Inbound socket messages: event.data is text, JSON.parse throws on text  *)
(* that is not JSON.                                                       *)
(***************************************************************************)
Raw(v) == [wellFormed |-> TRUE, value |-> v]
Malformed == [wellFormed |-> FALSE]
Trade(data) == Raw([type |-> "trade", data |-> data])
Ping == Raw([type |-> "ping"])

tick1 == [t |-> 1690000000, p |-> 250]
tick2 == [t |-> 1690000001, p |-> 251]

MessagePool ==
    { Malformed, Ping, Trade(<<>>), Trade(<<tick1>>), Trade(<<tick2, tick1>>) }

JSONparse(raw) ==
    IF raw.wellFormed THEN [ok |-> TRUE, value |-> raw.value] ELSE [ok |-> FALSE]

IsTrade(raw) == raw.wellFormed /\ raw.value.type = "trade"

(***************************************************************************)
(* A WebSocket with the closure the subscribe function builds around it:   *)
(* the query, the frame and the subscriber of one target.                  *)
(***************************************************************************)
websocketUrl == "wss://ws.finnhub.io?token=TOKEN"

NewSocket(id, b, k, sub, born, query) ==
    [ id |-> id, batch |-> b, idx |-> k, sub |-> sub, born |-> born,
      url |-> websocketUrl, query |-> query,
      readyState |-> "CONNECTING", closeCodes |-> <<>>, sent |-> <<>>,
      frame |-> NewFrame(query.refId),
      received |-> <<>>, emitted |-> <<>>,
      completed |-> FALSE, errored |-> FALSE ]

\* WebSocket.close(code): starts the closing handshake unless it has started.
socket_close(s, code) ==
    [s EXCEPT !.closeCodes = Append(@, code),
              !.readyState = IF @ \in {"CONNECTING", "OPEN"} THEN "CLOSING" ELSE @]

\* subscriber.next(value): dropped once the subscriber has completed.
subscriber_next(s, value) ==
    IF s.completed \/ s.errored THEN s ELSE [s EXCEPT !.emitted = Append(@, value)]

\* subscriber.complete()
subscriber_complete(s) ==
    IF s.completed \/ s.errored THEN s ELSE [s EXCEPT !.completed = TRUE]

\* A closeSockets that skips the sockets still connecting.
closeSockets_OnlyOpen(list) ==
    [i \in DOMAIN list |->
        IF list[i].readyState = "OPEN" THEN socket_close(list[i], GoingAway) ELSE list[i]]

\* closeSockets: socket.close(1001) on every socket of the list.
closeSockets(list) == [i \in DOMAIN list |-> socket_close(list[i], GoingAway)]

\* An onopen that sends the symbol as the caller wrote it.
onopen_RawSymbol(s) ==
    [s EXCEPT !.sent = Append(@, [type |-> "subscribe"]
                                   @@ Prop(s.query.refId.target, "symbol", "symbol"))]

\* socket.onopen: send the subscribe handshake.
onopen(s) ==
    [s EXCEPT !.sent = Append(@, [type |-> "subscribe"] @@ Prop(s.query, "symbol", "symbol"))]

\* An onclose that leaves the subscriber open.
onclose_NoComplete(s) == s

\* socket.onclose
onclose(s) == subscriber_complete(s)

\* An onerror that ends the subscription as a close does.
onerror_Complete(s) == subscriber_complete(s)

\* socket.onerror: console.log only.
onerror(s) == s

\* An onmessage whose catch block ends the stream.
onmessage_FatalParse(s, raw) ==
    LET parsed == JSONparse(raw) IN
    IF ~parsed.ok THEN [socket |-> subscriber_complete(s), thrown |-> TRUE]
    ELSE IF parsed.value.type = "trade" /\ Len(parsed.value.data) > 0
    THEN LET first == parsed.value.data[1]
             added == [s EXCEPT !.frame = frame_add(@, [ts |-> first.t, value |-> first.p])]
         IN  [socket |-> subscriber_next(added,
                            [data |-> <<[frame |-> s.id]>>, key |-> s.query.refId]),
              thrown |-> FALSE]
    ELSE [socket |-> s, thrown |-> parsed.value.type = "trade"]

\* socket.onmessage.  thrown tells whether the catch block ran.
onmessage(s, raw) ==
    LET parsed == JSONparse(raw) IN
    IF ~parsed.ok THEN [socket |-> s, thrown |-> TRUE]
    ELSE IF parsed.value.type = "trade"
    THEN IF Len(parsed.value.data) = 0
         THEN [socket |-> s, thrown |-> TRUE]
         ELSE LET first == parsed.value.data[1]
                  added == [s EXCEPT !.frame = frame_add(@, [ts |-> first.t, value |-> first.p])]
              IN  [socket |-> subscriber_next(added,
                                 [data |-> <<[frame |-> s.id]>>, key |-> s.query.refId]),
                   thrown |-> FALSE]
    ELSE [socket |-> s, thrown |-> FALSE]

(***************************************************************************)
(* Provider payloads.  Arr(items) is a JSON array, Obj(fields) a JSON      *)
(* object, Undefined the absent result; inside an object Num(n) and Str(s) *)
(* are its scalar cells.  Object.keys follows KeyOrder, the order in which *)
(* the provider writes the properties.                                     *)
(***************************************************************************)
Arr(items) == [arr |-> items]
Obj(fields) == [obj |-> fields]
Num(n) == [num |-> n]
Undefined == [undefined |-> TRUE]

IsArr(d) == "arr" \in DOMAIN d
IsObj(d) == "obj" \in DOMAIN d

KeyOrder == <<"period", "symbol", "actual", "estimate", "a", "b", "name", "beta",
              "c", "o", "t", "s", "metric">>

ObjectKeys(fields) ==
    LET In(k) == k \in DOMAIN fields IN SelectSeq(KeyOrder, In)

candleData == Obj([c |-> <<12, 13>>, o |-> <<10, 11>>, t |-> <<100, 200>>])
noData == Obj([s |-> Str("no_data")])
metricData == Obj([metric |-> [beta |-> Num(1), name |-> Str("x")]])
earningsData ==
    Arr(<< [period |-> "1970-01-02", symbol |-> Str("AAPL"),
            actual |-> Num(11), estimate |-> Num(10)] >>)
quoteData == Obj([c |-> 5, t |-> 7])
rowsData == Arr(<< [a |-> Num(1), b |-> Str("x")] >>)

\* What the provider may answer to the request of a target.
PayloadsFor(target) ==
    IF "queryText" \in DOMAIN target THEN {rowsData}
    ELSE CASE target.type = "candle" -> {candleData, noData}
           [] target.type = "metric" -> {metricData}
           [] target.type = "earnings" -> {earningsData, Arr(<<>>)}
           [] target.type = "quote" -> {quoteData}
           [] OTHER -> {rowsData}

\* new Date(period).getTime()
DateMs(period) ==
    CASE period = "1970-01-01" -> 0
      [] period = "1970-01-02" -> 86400000

(***************************************************************************)
(* utils.ts: getTargetType and ensureArray.                                *)
(***************************************************************************)
getTargetType(type) == IF type = "metric" THEN "Table" ELSE "Timeseries"

ensureArray(data) == IF IsArr(data) THEN data ELSE Arr(<<data.obj>>)

(***************************************************************************)
(* tableResponse(data) and tsResponse(data, type).  A result is Returned   *)
(* or Thrown (a TypeError: a property read of undefined).                  *)
(***************************************************************************)
Returned(v) == [ok |-> TRUE, value |-> v]
Thrown(e) == [ok |-> FALSE, reason |-> e]

typeof(val) == IF "str" \in DOMAIN val THEN "string" ELSE "number"

tableResponse(data) ==
    IF Len(data.arr) = 0 THEN Returned(Obj(<<>>))
    ELSE LET keys == ObjectKeys(data.arr[1]) IN
         Returned(Obj(
           [columns |-> [i \in DOMAIN keys |->
                           [text |-> keys[i], type |-> typeof(data.arr[1][keys[i]])]],
            rows |-> [r \in DOMAIN data.arr |->
                        LET ks == ObjectKeys(data.arr[r])
                        IN  [i \in DOMAIN ks |-> data.arr[r][ks[i]]]]]))

\* A tsResponse that leaves the candle times in seconds.
tsResponse_Seconds(data, type) ==
    IF type = "candle" /\ IsObj(data) /\ "t" \in DOMAIN data.obj
    THEN Returned(Arr(
           << [target |-> "open price",
               datapoints |-> [i \in DOMAIN data.obj.t |-> <<data.obj.o[i], data.obj.t[i]>>]],
              [target |-> "close price",
               datapoints |-> [i \in DOMAIN data.obj.t |-> <<data.obj.c[i], data.obj.t[i]>>]] >>))
    ELSE Returned(Arr(<<>>))

tsResponse(data, type) ==
    CASE type = "earnings" ->
           IF ~IsArr(data) \/ Len(data.arr) = 0 THEN Thrown("TypeError")
           ELSE LET excluded(k) == k \notin {"period", "symbol"}
                    keys == SelectSeq(ObjectKeys(data.arr[1]), excluded)
                IN  Returned(Arr(
                      [i \in DOMAIN keys |->
                         [target |-> keys[i],
                          datapoints |-> [d \in DOMAIN data.arr |->
                             <<data.arr[d][keys[i]], DateMs(data.arr[d].period)>>]]]))
      [] type = "quote" ->
           Returned(Arr(<< [target |-> "current price",
                            datapoints |-> << <<data.obj.c, data.obj.t * 1000>> >>] >>))
      [] type = "candle" ->
           IF ~IsObj(data) \/ "t" \notin DOMAIN data.obj THEN Thrown("TypeError")
           ELSE LET fields == <<"open price", "close price">>
                    charAt0 == <<"o", "c">>
                IN  Returned(Arr(
                      [f \in DOMAIN fields |->
                         [target |-> fields[f],
                          datapoints |-> [i \in DOMAIN data.obj.t |->
                             <<data.obj[charAt0[f]][i], data.obj.t[i] * 1000>>]]]))
      [] OTHER -> Returned(Arr(<<>>))

\* The request.then callback of query: combine received data and its target.
thenCallback(target, data) ==
    LET isTable == getTargetType(target.type) = "Table" IN
    IF data = Undefined THEN Thrown("TypeError")
    ELSE LET inner == IF IsObj(data) /\ "metric" \in DOMAIN data.obj
                      THEN Obj(data.obj.metric) ELSE data
         IN  IF isTable THEN tableResponse(ensureArray(inner))
             ELSE tsResponse(inner, target.type)

(***************************************************************************)
(* The REST fetchers.  outcome is what backendSrv.get does: Returned(data) *)
(* or Thrown("transport").  Each yields the settlement of its promise and  *)
(* whether console.error was called.                                       *)
(***************************************************************************)
baseUrl == "https://finnhub.io/api/v1"
token == "TOKEN"

TransportOutcomes(target) ==
    { Returned(d) : d \in PayloadsFor(target) } \cup { Thrown("transport") }

\* A get that logs and swallows the failure, as freeTextQuery does.
get_Swallow(dataType, params, outcome) ==
    IF outcome.ok THEN [settled |-> Returned(outcome.value), logged |-> FALSE]
    ELSE [settled |-> Returned(Undefined), logged |-> TRUE]

\* get(dataType, params): log and re-throw on failure.
get(dataType, params, outcome) ==
    IF outcome.ok THEN [settled |-> Returned(outcome.value), logged |-> FALSE]
    ELSE [settled |-> Thrown(outcome.reason), logged |-> TRUE]

\* freeTextQuery(query): log and fall off the end on failure.
freeTextQuery(queryText, outcome) ==
    IF outcome.ok THEN [settled |-> Returned(outcome.value), logged |-> FALSE]
    ELSE [settled |-> Returned(Undefined), logged |-> TRUE]

\* The request each fetcher hands to backendSrv.get.
getRequest(dataType, params) ==
    [url |-> <<baseUrl>> \o (IF dataType = "quote" THEN <<>> ELSE <<"stock">>) \o <<dataType>>,
     params |-> params @@ [token |-> token]]

freeTextRequest(queryText) ==
    [url |-> <<baseUrl, queryText, "&token=", token>>, params |-> <<>>]

\* One element of targets.map in the else branch of query: the request issued.
IssueRequest(target, range) ==
    LET targetWithDefaults == WithDefaults(target) IN
    IF "queryText" \in DOMAIN targetWithDefaults /\ targetWithDefaults.queryText # ""
    THEN [free |-> TRUE, request |-> freeTextRequest(targetWithDefaults.queryText),
          outcome |-> [pending |-> TRUE], promise |-> [state |-> "pending"]]
    ELSE [free |-> FALSE,
          request |-> getRequest(targetWithDefaults.type,
                                 constructQuery(targetWithDefaults, range)),
          outcome |-> [pending |-> TRUE], promise |-> [state |-> "pending"]]

\* The promise of one target once the transport has answered: the fetcher,
\* then the request.then callback.
SettleRequest(target, req, outcome) ==
    LET fetched == IF req.free
                   THEN freeTextQuery(WithDefaults(target).queryText, outcome)
                   ELSE get(WithDefaults(target).type, req.request.params, outcome)
        result == IF fetched.settled.ok
                  THEN thenCallback(WithDefaults(target), fetched.settled.value)
                  ELSE fetched.settled
    IN  [promise |-> IF result.ok THEN [state |-> "fulfilled", value |-> result.value]
                     ELSE [state |-> "rejected", reason |-> result.reason],
         logged |-> fetched.logged]

(***************************************************************************)
(* Promise.all(promises).then(data => ({data: data.flat()})).              *)
(***************************************************************************)
RECURSIVE flat(_)
flat(values) ==
    IF Len(values) = 0 THEN <<>>
    ELSE (IF IsArr(Head(values)) THEN Head(values).arr ELSE <<Head(values)>>)
           \o flat(Tail(values))

\* The values of the promises in the order in which they settled.
PromiseAllValues_ByCompletion(requests, order) ==
    [n \in DOMAIN order |-> requests[order[n]].promise.value]

\* The values of the promises, by position in the array handed to Promise.all.
PromiseAllValues(requests, order) == [k \in DOMAIN requests |-> requests[k].promise.value]

\* The state of the joined promise after request k settled.
PromiseAll(result, requests, order, k) ==
    IF result.state # "pending" THEN result
    ELSE IF requests[k].promise.state = "rejected"
    THEN [state |-> "rejected", reason |-> requests[k].promise.reason]
    ELSE IF \A j \in DOMAIN requests : requests[j].promise.state = "fulfilled"
    THEN [state |-> "resolved", data |-> flat(PromiseAllValues(requests, order))]
    ELSE result

(***************************************************************************)
(* The state machine.                                                      *)
(***************************************************************************)
Init ==
    /\ batches = <<>>
    /\ sockets = <<>>
    /\ console = [wsError |-> 0, caught |-> 0, fetchError |-> 0]
    /\ probes = <<>>
    /\ calls = <<>>

\* A routing that streams as soon as any target is a quote.
IsStreaming_Any(targets) ==
    \E k \in DOMAIN targets : "type" \in DOMAIN targets[k] /\ targets[k].type = "quote"

IsStreaming(targets) == "type" \in DOMAIN targets[1] /\ targets[1].type = "quote"

\* query(options): close every listed socket, then build the lazy merged
\* stream, or issue every REST request and join them.
query(targets, range) ==
    /\ sockets' = closeSockets(sockets)
    /\ batches' = Append(batches,
          IF IsStreaming(targets)
          THEN [mode |-> "stream", targets |-> targets, range |-> range,
                subscriptions |-> 0]
          ELSE [mode |-> "rest", targets |-> targets, range |-> range,
                requests |-> [k \in DOMAIN targets |-> IssueRequest(targets[k], range)],
                order |-> <<>>,
                result |-> [state |-> "pending"]])
    /\ UNCHANGED <<console, probes, calls>>

\* A subscribe function that builds every socket from the first target.
SubscribeTarget_FirstQuery(list, b, k) ==
    LET targetWithDefaults == WithDefaults(batches[b].targets[1])
        q == constructQuery(targetWithDefaults, batches[b].range)
    IN  Append(list, NewSocket(Len(list) + 1, b, k, batches[b].subscriptions + 1,
                               Len(batches), q))

\* The subscribe function of the Observable of target k of batch b, run
\* when the socket list holds list: a new socket, pushed at the end.
SubscribeTarget(list, b, k) ==
    LET targetWithDefaults == WithDefaults(batches[b].targets[k])
        q == constructQuery(targetWithDefaults, batches[b].range)
    IN  Append(list, NewSocket(Len(list) + 1, b, k, batches[b].subscriptions + 1,
                               Len(batches), q))

RECURSIVE SubscribeFrom(_, _, _)
SubscribeFrom(list, b, k) ==
    IF k > Len(batches[b].targets) THEN list
    ELSE SubscribeFrom(SubscribeTarget(list, b, k), b, k + 1)

\* A merge that completes with the first inner stream that completes.
merge_CompletesWithFirst(inner) ==
    [completed |-> \E s \in inner : s.completed,
     emissions |-> UNION { Range(s.emitted) : s \in inner }]

\* merge(...observables), seen from its subscriber: it passes on every
\* emission of every inner stream and completes when all of them have.
merge(inner) ==
    [completed |-> \A s \in inner : s.completed,
     emissions |-> UNION { Range(s.emitted) : s \in inner }]

\* The merged stream of the sub-th subscription to batch b.
Merged(b, sub) ==
    merge({ sockets[i] : i \in { j \in DOMAIN sockets :
                                   sockets[j].batch = b /\ sockets[j].sub = sub } })

\* A subscription to the merged stream of batch b: merge subscribes to the
\* Observable of every target, in target order.
Subscribe(b) ==
    /\ batches[b].mode = "stream"
    /\ sockets' = SubscribeFrom(sockets, b, 1)
    /\ batches' = [batches EXCEPT ![b].subscriptions = @ + 1]
    /\ UNCHANGED <<console, probes, calls>>

\* The connection of socket i is established: its open event.
SocketOpen(i) ==
    /\ sockets[i].readyState = "CONNECTING"
    /\ sockets' = [sockets EXCEPT ![i] = onopen([@ EXCEPT !.readyState = "OPEN"])]
    /\ UNCHANGED <<batches, console, probes, calls>>

\* A message event on socket i; a socket delivers messages only while OPEN.
SocketMessage(i, raw) ==
    /\ sockets[i].readyState = "OPEN"
    /\ LET handled == onmessage([sockets[i] EXCEPT !.received = Append(@, raw)], raw) IN
         /\ sockets' = [sockets EXCEPT ![i] = handled.socket]
         /\ console' = [console EXCEPT !.caught = @ + (IF handled.thrown THEN 1 ELSE 0)]
    /\ UNCHANGED <<batches, probes, calls>>

\* An error event on socket i.
SocketError(i) ==
    /\ sockets[i].readyState # "CLOSED"
    /\ sockets' = [sockets EXCEPT ![i] = onerror(@)]
    /\ console' = [console EXCEPT !.wsError = @ + 1]
    /\ UNCHANGED <<batches, probes, calls>>

\* The close event of socket i: the peer closed or failed the connection,
\* or the closing handshake started by close() finished.
SocketClose(i) ==
    /\ sockets[i].readyState # "CLOSED"
    /\ sockets' = [sockets EXCEPT ![i] = onclose([@ EXCEPT !.readyState = "CLOSED"])]
    /\ UNCHANGED <<batches, console, probes, calls>>

\* The transport answers request k of REST batch b.
Respond(b, k, outcome) ==
    /\ batches[b].mode = "rest"
    /\ batches[b].requests[k].promise.state = "pending"
    /\ LET settled == SettleRequest(batches[b].targets[k], batches[b].requests[k], outcome)
           requests == [batches[b].requests EXCEPT ![k].promise = settled.promise,
                                                   ![k].outcome = outcome]
           order == Append(batches[b].order, k)
       IN  /\ batches' = [batches EXCEPT
                 ![b].requests = requests,
                 ![b].order = order,
                 ![b].result = PromiseAll(@, requests, order, k)]
           /\ console' = [console EXCEPT
                 !.fetchError = @ + (IF settled.logged THEN 1 ELSE 0)]
    /\ UNCHANGED <<sockets, probes, calls>>

RECURSIVE ReceivedUpTo(_)
ReceivedUpTo(n) ==
    IF n = 0 THEN 0 ELSE Len(sockets[n].received) + ReceivedUpTo(n - 1)

NumReceived == ReceivedUpTo(Len(sockets))

Next ==
    \/ \E targets \in BatchPool, range \in RangePool :
          Len(batches) < MaxQueries /\ query(targets, range)
    \/ \E b \in DOMAIN batches :
          Len(sockets) + Len(batches[b].targets) <= MaxSockets /\ Subscribe(b)
    \/ \E i \in DOMAIN sockets : SocketOpen(i)
    \/ \E i \in DOMAIN sockets, raw \in MessagePool :
          NumReceived < MaxMessages /\ SocketMessage(i, raw)
    \/ \E i \in DOMAIN sockets : console.wsError < MaxErrors /\ SocketError(i)
    \/ \E i \in DOMAIN sockets : SocketClose(i)
    \/ \E b \in DOMAIN batches : \E k \in DOMAIN batches[b].targets :
          \E outcome \in TransportOutcomes(WithDefaults(batches[b].targets[k])) :
             Respond(b, k, outcome)

Spec == Init /\ [][Next]_vars

(***************************************************************************)
(* The REST path alone: batches of non-streaming targets and the answers   *)
(* of the transport.                                                       *)
(***************************************************************************)
NextRest ==
    \/ \E targets \in RestPool, range \in RangePool :
          Len(batches) < MaxQueries /\ query(targets, range)
    \/ \E b \in DOMAIN batches : \E k \in DOMAIN batches[b].targets :
          \E outcome \in TransportOutcomes(WithDefaults(batches[b].targets[k])) :
             Respond(b, k, outcome)

SpecRest == Init /\ [][NextRest]_vars

(***************************************************************************)
(* One subscription fed with a long run of trades: the batch <<tQuoteA>>   *)
(* has been queried and subscribed and its socket has opened; the n-th     *)
(* inbound message is the trade TickAt(n).                                 *)
(***************************************************************************)
TickAt(n) == [t |-> n, p |-> (n * 7) % 10]

InitBuffer ==
    /\ batches = << [mode |-> "stream", targets |-> <<tQuoteA>>,
                     range |-> [from |-> 1500, to |-> 3999], subscriptions |-> 1] >>
    /\ sockets = << onopen([NewSocket(1, 1, 1, 1, 1,
                               constructQuery(WithDefaults(tQuoteA),
                                              [from |-> 1500, to |-> 3999]))
                            EXCEPT !.readyState = "OPEN"]) >>
    /\ console = [wsError |-> 0, caught |-> 0, fetchError |-> 0]
    /\ probes = <<>>
    /\ calls = <<>>

NextBuffer ==
    /\ Len(sockets[1].received) < MaxTicks
    /\ SocketMessage(1, Trade(<<TickAt(Len(sockets[1].received) + 1)>>))

SpecBuffer == InitBuffer /\ [][NextBuffer]_vars

(***************************************************************************)
(* testDatasource(): a profile request for AAPL through get; success when  *)
(* the answer's status is 200.  A failure of the transport is thrown by    *)
(* get and nothing catches it, so the call rejects.                        *)
(***************************************************************************)
ProbeAnswers ==
    { [status |-> 200, data |-> Obj([name |-> Str("Apple")])],
      [status |-> 200, data |-> Obj(<<>>)],
      [status |-> 204, data |-> Obj(<<>>)],
      [status |-> 500, data |-> Obj(<<>>)] }

ProbeOutcomes == { Returned(a) : a \in ProbeAnswers } \cup { Thrown("transport") }

\* The settlement of testDatasource once the transport has answered.
testDatasource(outcome) ==
    LET fetched == get("profile", [symbol |-> <<"A", "A", "P", "L">>], outcome) IN
    [result |-> IF ~fetched.settled.ok
                THEN [state |-> "rejected", reason |-> fetched.settled.reason]
                ELSE IF fetched.settled.value.status = 200
                THEN [state |-> "returned", value |-> [status |-> "success"]]
                ELSE [state |-> "returned", value |-> [status |-> "error"]],
     logged |-> fetched.logged]

\* A call of testDatasource: the profile request is issued.
Probe ==
    /\ probes' = Append(probes,
          [request |-> getRequest("profile", [symbol |-> <<"A", "A", "P", "L">>]),
           outcome |-> [pending |-> TRUE],
           result |-> [state |-> "pending"]])
    /\ UNCHANGED <<batches, sockets, console, calls>>

\* The transport answers the request of probe p.
ProbeRespond(p, outcome) ==
    /\ probes[p].result.state = "pending"
    /\ LET settled == testDatasource(outcome) IN
         /\ probes' = [probes EXCEPT ![p].outcome = outcome, ![p].result = settled.result]
         /\ console' = [console EXCEPT
               !.fetchError = @ + (IF settled.logged THEN 1 ELSE 0)]
    /\ UNCHANGED <<batches, sockets, calls>>

NextProbe ==
    \/ Len(probes) < MaxProbes /\ Probe
    \/ \E p \in DOMAIN probes : \E outcome \in ProbeOutcomes : ProbeRespond(p, outcome)

SpecProbe == Init /\ [][NextProbe]_vars

(***************************************************************************)
(* constructQuery called directly: every target shape and range of the     *)
(* pools below, one call per behaviour.                                    *)
(***************************************************************************)
SymbolPool == { <<>>, [symbol |-> aapl], [symbol |-> tsla],
                [symbol |-> <<"A", "A", "P", "L">>] }

TypePool == { <<>>, [type |-> "candle"], [type |-> "metric"], [type |-> "quote"],
              [type |-> "profile"], [type |-> "unknown"] }

ResolutionPool == { <<>>, [resolution |-> "D"] }

MetricPool == { <<>>, [metric |-> "price"] }

TargetPool ==
    { [refId |-> Str("A")] @@ s @@ t @@ r @@ m :
        s \in SymbolPool, t \in TypePool, r \in ResolutionPool, m \in MetricPool }

BuildRangePool == { [from |-> 0, to |-> 999], [from |-> 1500, to |-> 3999],
                    [from |-> 2000, to |-> 2000] }

InitBuild ==
    /\ batches = <<>>
    /\ sockets = <<>>
    /\ console = [wsError |-> 0, caught |-> 0, fetchError |-> 0]
    /\ probes = <<>>
    /\ \E target \in TargetPool : \E range \in BuildRangePool :
          calls = << [fn |-> "constructQuery", target |-> target, range |-> range,
                      state |-> "called"] >>

\* The call returns.
Build(n) ==
    /\ calls[n].fn = "constructQuery"
    /\ calls[n].state = "called"
    /\ calls' = [calls EXCEPT ![n] =
          [fn |-> "constructQuery", target |-> calls[n].target, range |-> calls[n].range,
           state |-> "returned",
           result |-> constructQuery(calls[n].target, calls[n].range)]]
    /\ UNCHANGED <<batches, sockets, console, probes>>

NextBuild == \E n \in DOMAIN calls : Build(n)

SpecBuild == InitBuild /\ [][NextBuild]_vars

(***************************************************************************)
(* tsResponse called directly on candle payloads: parallel arrays t, o and *)
(* c of up to MaxLen candles.                                              *)
(***************************************************************************)
Arrays(S) == UNION { [1..n -> S] : n \in 0..MaxLen }

CandlePool ==
    { Obj([t |-> t, o |-> o, c |-> c]) :
        <<t, o, c>> \in { x \in Arrays({100, 200}) \X Arrays({10, 11}) \X Arrays({12, 13}) :
                            Len(x[1]) = Len(x[2]) /\ Len(x[2]) = Len(x[3]) } }

InitCandle ==
    /\ batches = <<>>
    /\ sockets = <<>>
    /\ console = [wsError |-> 0, caught |-> 0, fetchError |-> 0]
    /\ probes = <<>>
    /\ \E data \in CandlePool :
          calls = << [fn |-> "tsResponse", data |-> data, type |-> "candle",
                      state |-> "called"] >>

\* The call returns or throws.
Normalize(n) ==
    /\ calls[n].fn = "tsResponse"
    /\ calls[n].state = "called"
    /\ calls' = [calls EXCEPT ![n] =
          [fn |-> "tsResponse", data |-> calls[n].data, type |-> calls[n].type,
           state |-> "returned",
           result |-> tsResponse(calls[n].data, calls[n].type)]]
    /\ UNCHANGED <<batches, sockets, console, probes>>

NextCandle == \E n \in DOMAIN calls : Normalize(n)

SpecCandle == InitCandle /\ [][NextCandle]_vars

(***************************************************************************)
(* Properties.                                                             *)
(***************************************************************************)
Last(seq) == seq[Len(seq)]

\* The target that owns socket s, as the caller supplied it.
TargetOf(s) == batches[s.batch].targets[s.idx]

StreamBatches == { b \in DOMAIN batches : batches[b].mode = "stream" }
RestBatches == { b \in DOMAIN batches : batches[b].mode = "rest" }

\* C1: when a socket of batch b exists, close(1001) has been called on every
\* socket that was in the list when the b-th call of query started (born
\* counts the calls of query made before the socket was pushed).
C1_ClosedBeforeReopen ==
    \A i \in DOMAIN sockets : \A j \in DOMAIN sockets :
        sockets[j].born < sockets[i].batch => GoingAway \in Range(sockets[j].closeCodes)

\* C1 witness: a socket of an earlier batch that was still connecting or open
\* when a later batch was queried, and a socket of that later batch.
C1_Witness ==
    \E i \in DOMAIN sockets : \E j \in DOMAIN sockets :
        /\ sockets[j].batch < sockets[i].batch
        /\ sockets[j].born < sockets[i].batch
        /\ sockets[j].readyState = "CLOSING"

\* C2 (as claimed): every inbound trade message with a first data element
\* appends exactly that element's (ts = t, value = p) to the buffer of its
\* socket and then emits exactly once, the emission carrying that buffer and
\* keyed by the refId the caller gave the owning target.
C2_TradeAppendsAndEmits ==
    [][\A i \in DOMAIN sockets :
         ( /\ Len(sockets'[i].received) = Len(sockets[i].received) + 1
           /\ IsTrade(Last(sockets'[i].received))
           /\ Len(Last(sockets'[i].received).value.data) > 0 )
         => LET first == Last(sockets'[i].received).value.data[1] IN
            /\ FrameValues(sockets'[i].frame)
                 = Append(FrameValues(sockets[i].frame), [ts |-> first.t, value |-> first.p])
            /\ sockets'[i].emitted
                 = Append(sockets[i].emitted,
                          [data |-> <<[frame |-> i]>>, key |-> TargetOf(sockets[i]).refId])
      ]_vars

\* C3 (as claimed): the refId of the built provider request, the refId of the
\* streaming buffer and the key of every emission are the caller's refId.
C3_RefIdRoundTrips ==
    /\ \A i \in DOMAIN sockets :
          /\ sockets[i].query.refId = TargetOf(sockets[i]).refId
          /\ sockets[i].frame.refId = TargetOf(sockets[i]).refId
          /\ \A e \in DOMAIN sockets[i].emitted :
                sockets[i].emitted[e].key = TargetOf(sockets[i]).refId
    /\ \A b \in RestBatches : \A k \in DOMAIN batches[b].targets :
          ~batches[b].requests[k].free
             => batches[b].requests[k].request.params.refId = batches[b].targets[k].refId

\* The samples the trade messages received on socket s carried (the first
\* element of each data array), in arrival order.
TradeSamples(s) ==
    LET Carries(raw) == IsTrade(raw) /\ Len(raw.value.data) > 0
        trades == SelectSeq(s.received, Carries)
    IN  [n \in DOMAIN trades |->
            [ts |-> trades[n].value.data[1].t, value |-> trades[n].value.data[1].p]]

Min(a, b) == IF a < b THEN a ELSE b

\* C4: the rolling buffer of a socket never holds more than capacity rows,
\* and holds exactly the last min(n, capacity) of the n samples received on
\* that socket, oldest first.
C4_RollingBuffer ==
    \A i \in DOMAIN sockets :
        LET samples == TradeSamples(sockets[i])
            n == Len(samples)
            m == Min(n, capacity)
        IN  /\ Len(sockets[i].frame.buffer) <= capacity
            /\ FrameValues(sockets[i].frame) = SubSeq(samples, n - m + 1, n)

\* C4 witness: more trades than the capacity have arrived, so the oldest
\* ones have been evicted.
C4_Witness ==
    \E i \in DOMAIN sockets :
        /\ Len(TradeSamples(sockets[i])) > capacity + 1
        /\ Len(FrameValues(sockets[i].frame)) = capacity
        /\ FrameValues(sockets[i].frame)[1] # TradeSamples(sockets[i])[1]

\* C5: a closed socket has a completed, error-free output stream; once a
\* socket is closing or closed its stream never emits again; a socket that
\* closed without having received a message has emitted nothing.
C5_CloseCompletes ==
    /\ [](\A i \in DOMAIN sockets :
            sockets[i].readyState = "CLOSED"
               => /\ sockets[i].completed
                  /\ ~sockets[i].errored
                  /\ (sockets[i].received = <<>> => sockets[i].emitted = <<>>))
    /\ [][\A i \in DOMAIN sockets :
            (sockets[i].readyState \in {"CLOSING", "CLOSED"} \/ sockets[i].completed)
               => sockets'[i].emitted = sockets[i].emitted]_vars

\* C5 witness: one socket closed after it had emitted, another closed by
\* closeSockets without ever having received a message.
C5_Witness ==
    \E i \in DOMAIN sockets : \E j \in DOMAIN sockets :
        /\ sockets[i].readyState = "CLOSED" /\ sockets[i].completed
        /\ sockets[i].emitted # <<>>
        /\ sockets[j].readyState = "CLOSED" /\ sockets[j].completed
        /\ sockets[j].received = <<>> /\ sockets[j].closeCodes # <<>>

\* C6 (as claimed): the list of sockets holds no closed socket, and holds
\* nothing once closeSockets has run.
C6_NoClosedSocketListed ==
    /\ [](\A i \in DOMAIN sockets : sockets[i].readyState # "CLOSED")
    /\ [][Len(batches') > Len(batches) => Len(sockets') = 0]_vars

\* What the transport did to request r.
Answered(r) == "ok" \in DOMAIN r.outcome
Failed(r) == Answered(r) /\ ~r.outcome.ok

\* The normalized output of one target as elements of the data list: the
\* series of a time-series output, or the one table.
OutputsOf(r) == IF IsArr(r.promise.value) THEN r.promise.value.arr ELSE <<r.promise.value>>

RECURSIVE OutputsUpTo(_, _)
OutputsUpTo(requests, k) ==
    IF k = 0 THEN <<>> ELSE OutputsUpTo(requests, k - 1) \o OutputsOf(requests[k])

\* C7: once every per-target request of a REST batch has produced its
\* normalized output, the batch is resolved and its data list is the outputs
\* of target 1, then of target 2, ..., whatever the order of completion.
C7_PositionalJoin ==
    \A b \in RestBatches :
        LET requests == batches[b].requests IN
        /\ (\A k \in DOMAIN requests : requests[k].promise.state = "fulfilled")
              => /\ batches[b].result.state = "resolved"
                 /\ batches[b].result.data = OutputsUpTo(requests, Len(requests))
        /\ batches[b].result.state = "resolved"
              => \A k \in DOMAIN requests : requests[k].promise.state = "fulfilled"

\* C7 witness: a resolved batch whose last target completed first and whose
\* targets have different, non-empty outputs.
C7_Witness ==
    \E b \in RestBatches :
        /\ batches[b].result.state = "resolved"
        /\ batches[b].order[1] = Len(batches[b].targets)
        /\ \A k \in DOMAIN batches[b].requests : OutputsOf(batches[b].requests[k]) # <<>>
        /\ OutputsOf(batches[b].requests[1]) # OutputsOf(batches[b].requests[2])

\* C8: every target of a REST batch has its request issued as soon as the
\* batch exists; a structured request whose fetch failed has a promise
\* rejected with that transport failure, and its batch is rejected and
\* carries no data.
C8_FailFast ==
    \A b \in RestBatches :
        LET requests == batches[b].requests IN
        /\ DOMAIN requests = DOMAIN batches[b].targets
        /\ \A k \in DOMAIN requests :
              (~requests[k].free /\ Failed(requests[k]))
                 => /\ requests[k].promise = [state |-> "rejected", reason |-> "transport"]
                    /\ batches[b].result.state = "rejected"
                    /\ "data" \notin DOMAIN batches[b].result

\* C8 witness: a structured request failed after another target of the batch
\* had already produced its output.
C8_Witness ==
    \E b \in RestBatches :
        LET requests == batches[b].requests IN
        /\ \E k \in DOMAIN requests : ~requests[k].free /\ Failed(requests[k])
        /\ \E k \in DOMAIN requests : requests[k].promise.state = "fulfilled"
        /\ batches[b].result.state = "rejected"

\* C9 (as claimed): a free-text request whose transport failed does not
\* reject; a batch is rejected only because of some other target.
C9_FreeTextFailureSwallowed ==
    \A b \in RestBatches :
        LET requests == batches[b].requests
            Swallowed(k) == requests[k].free /\ Failed(requests[k])
        IN  /\ \A k \in DOMAIN requests :
                  Swallowed(k) => requests[k].promise.state # "rejected"
            /\ batches[b].result.state = "rejected"
                  => \E k \in DOMAIN requests :
                        ~Swallowed(k) /\ requests[k].promise.state = "rejected"

\* C10: an error event changes nothing but the console: no socket changes
\* state, buffer or stream; and a stream completes only in the step in which
\* its socket becomes closed.
C10_ErrorIsNotFatal ==
    /\ [][console'.wsError # console.wsError
             => sockets' = sockets /\ batches' = batches]_vars
    /\ [][\A i \in DOMAIN sockets :
             (~sockets[i].completed /\ sockets'[i].completed)
                => (sockets[i].readyState # "CLOSED" /\ sockets'[i].readyState = "CLOSED")]_vars

\* C10 witness: an error event has been handled and a socket is open, its
\* stream not completed, with an emission made.
C10_Witness ==
    /\ console.wsError > 0
    /\ \E i \in DOMAIN sockets :
          /\ sockets[i].readyState = "OPEN"
          /\ ~sockets[i].completed
          /\ sockets[i].emitted # <<>>

\* The message a step delivers to socket i, when it delivers one.
Delivers(i) == Len(sockets'[i].received) = Len(sockets[i].received) + 1

\* C11: a step that delivers a message which fails to parse, or whose type
\* is not "trade", changes nothing of the socket but the record of what it
\* received: the frame, the emissions, the completion of the stream and the
\* ready state stay as they were; and a trade with a first data element is
\* appended and emitted whatever was delivered before it.
C11_NonTradeIgnored ==
    [][\A i \in DOMAIN sockets :
          Delivers(i) =>
            LET raw == Last(sockets'[i].received) IN
            /\ ~IsTrade(raw) =>
                 sockets'[i] = [sockets[i] EXCEPT !.received = Append(@, raw)]
            /\ (IsTrade(raw) /\ Len(raw.value.data) > 0) =>
                 /\ Len(sockets'[i].emitted) = Len(sockets[i].emitted) + 1
                 /\ FrameValues(sockets'[i].frame) =
                      Append(FrameValues(sockets[i].frame),
                             [ts |-> raw.value.data[1].t, value |-> raw.value.data[1].p])
                 /\ ~sockets'[i].completed]_vars

\* C11 witness: a socket that took a message that is not a trade and then a
\* trade, and emitted for the trade.
C11_Witness ==
    \E i \in DOMAIN sockets :
        /\ Len(sockets[i].received) = 2
        /\ ~IsTrade(sockets[i].received[1])
        /\ IsTrade(sockets[i].received[2])
        /\ Len(sockets[i].emitted) = 1
        /\ ~sockets[i].completed

\* Probes whose request the transport has answered.
AnsweredProbes == { p \in DOMAIN probes : "ok" \in DOMAIN probes[p].outcome }

\* C15 (as claimed): whatever the transport answered, testDatasource
\* returned {status: "success"} or {status: "error"}, and "success" exactly
\* when the transport answered with status 200, whatever the payload.
C15_ProbeAlwaysReturnsStatus ==
    \A p \in AnsweredProbes :
        /\ probes[p].result.state = "returned"
        /\ probes[p].result.value \in { [status |-> "success"], [status |-> "error"] }
        /\ (probes[p].result.value = [status |-> "success"]) <=>
             (probes[p].outcome.ok /\ probes[p].outcome.value.status = 200)

\* u is s with every lower-case letter replaced by its capital.
IsUpperCased(u, s) ==
    /\ Len(u) = Len(s)
    /\ \A n \in DOMAIN s :
          /\ \A j \in DOMAIN LowerChars : u[n] # LowerChars[j]
          /\ \/ u[n] = s[n]
             \/ \E j \in DOMAIN LowerChars : s[n] = LowerChars[j] /\ u[n] = UpperChars[j]

\* The handshake of socket s: {type: "subscribe", symbol} with the symbol of
\* the owning target in capitals.
IsHandshake(msg, s) ==
    /\ DOMAIN msg = {"type", "symbol"}
    /\ msg.type = "subscribe"
    /\ IsUpperCased(msg.symbol, TargetOf(s).symbol)

\* C12: a socket that is still connecting has sent nothing, an open socket
\* has sent exactly one message, no socket ever sends more than one, every
\* message sent is the subscribe handshake for the upper-cased symbol of the
\* owning target, and a message is sent only in the step in which the socket
\* goes from connecting to open.
C12_OneHandshakeOnOpen ==
    /\ [](\A i \in DOMAIN sockets :
            /\ Len(sockets[i].sent) <= 1
            /\ sockets[i].readyState = "CONNECTING" => sockets[i].sent = <<>>
            /\ sockets[i].readyState = "OPEN" => Len(sockets[i].sent) = 1
            /\ \A n \in DOMAIN sockets[i].sent : IsHandshake(sockets[i].sent[n], sockets[i]))
    /\ [][\A i \in DOMAIN sockets :
            sockets'[i].sent # sockets[i].sent =>
                /\ sockets[i].readyState = "CONNECTING"
                /\ sockets'[i].readyState = "OPEN"]_vars

\* C12 witness: an open socket of a target whose symbol was written with
\* lower-case letters, after its handshake, and a sibling still connecting.
C12_Witness ==
    \E i \in DOMAIN sockets : \E j \in DOMAIN sockets :
        /\ sockets[i].readyState = "OPEN"
        /\ Len(sockets[i].sent) = 1
        /\ sockets[i].sent[1].symbol # TargetOf(sockets[i]).symbol
        /\ sockets[j].readyState = "CONNECTING"

\* The sockets of target k of batch b made by its sub-th subscription.
SocketsOf(b, sub, k) ==
    { i \in DOMAIN sockets :
        sockets[i].batch = b /\ sockets[i].sub = sub /\ sockets[i].idx = k }

\* C13: a batch whose first target is a quote is a stream: it issued no REST
\* request, and each subscription to it made one socket for every target,
\* whatever that target's kind; any other batch issued one REST request for
\* every target, whatever that target's kind, and never has a socket.
C13_RoutedByFirstTarget ==
    \A b \in DOMAIN batches :
        LET targets == batches[b].targets
            firstIsQuote == "type" \in DOMAIN targets[1] /\ targets[1].type = "quote"
        IN  IF firstIsQuote
            THEN /\ batches[b].mode = "stream"
                 /\ "requests" \notin DOMAIN batches[b]
                 /\ \A sub \in 1..batches[b].subscriptions : \A k \in DOMAIN targets :
                        Cardinality(SocketsOf(b, sub, k)) = 1
            ELSE /\ batches[b].mode = "rest"
                 /\ DOMAIN batches[b].requests = DOMAIN targets
                 /\ \A i \in DOMAIN sockets : sockets[i].batch # b

\* C13 witness: a subscribed stream whose second target is not a quote, with
\* a socket for it, and a REST batch whose second target is a quote.
C13_Witness ==
    \E b \in DOMAIN batches : \E c \in DOMAIN batches :
        /\ batches[b].mode = "stream"
        /\ Len(batches[b].targets) = 2
        /\ batches[b].targets[2].type # "quote"
        /\ SocketsOf(b, 1, 2) # {}
        /\ batches[c].mode = "rest"
        /\ Len(batches[c].targets) = 2
        /\ batches[c].targets[2].type = "quote"
        /\ Len(batches[c].requests) = 2

\* Two sockets made by the same subscription for different targets.
Siblings(i, j) ==
    /\ i # j
    /\ sockets[i].batch = sockets[j].batch
    /\ sockets[i].sub = sockets[j].sub

\* C14: every socket has a frame of its own; each emission of a socket
\* carries that socket's frame and is keyed by the refId built for the
\* socket's own target, which differs from the key of every sibling; the
\* frame holds exactly the samples of the trades that arrived on its own
\* socket, in arrival order; and a delivery to one socket changes no other.
C14_EmissionsStayWithTheirSocket ==
    /\ [](\A i \in DOMAIN sockets :
            LET s == sockets[i]
                own == constructQuery(WithDefaults(TargetOf(s)), batches[s.batch].range)
            IN  /\ s.frame.refId = own.refId
                /\ \A n \in DOMAIN s.emitted :
                      /\ s.emitted[n].data = <<[frame |-> i]>>
                      /\ s.emitted[n].key = own.refId
                /\ Len(s.emitted) = Len(TradeSamples(s))
                /\ FrameValues(s.frame) = TradeSamples(s)
                /\ \A j \in DOMAIN sockets :
                      Siblings(i, j) => sockets[j].frame.refId # s.frame.refId)
    /\ [][\A i \in DOMAIN sockets :
            Delivers(i) => \A j \in DOMAIN sockets \ {i} : sockets'[j] = sockets[j]]_vars

\* C14 witness: two sockets of one subscription that each took a trade, the
\* later socket first, and hold different samples.
C14_Witness ==
    \E i \in DOMAIN sockets : \E j \in DOMAIN sockets :
        /\ Siblings(i, j)
        /\ Len(sockets[i].emitted) = 1
        /\ Len(sockets[j].emitted) = 1
        /\ FrameValues(sockets[i].frame) # FrameValues(sockets[j].frame)

\* The subscriptions made so far, as pairs of batch and subscription number.
Subscriptions ==
    { <<sockets[i].batch, sockets[i].sub>> : i \in DOMAIN sockets }

\* The sockets of subscription x.
Inner(x) == { i \in DOMAIN sockets : sockets[i].batch = x[1] /\ sockets[i].sub = x[2] }

\* C20: the merged stream of a subscription is complete exactly when every
\* socket of the subscription is closed; the close of one socket completes
\* that socket's stream and changes no other socket, so the merged stream
\* stays open while a sibling is not closed and passes on what the sibling
\* emits; and the step that closes the last socket completes the merged
\* stream.
C20_MergedCompletesWhenAllClosed ==
    /\ [](\A x \in Subscriptions :
            /\ Merged(x[1], x[2]).completed <=>
                 \A i \in Inner(x) : sockets[i].readyState = "CLOSED"
            /\ \A i \in Inner(x) :
                 /\ sockets[i].completed <=> sockets[i].readyState = "CLOSED"
                 /\ Range(sockets[i].emitted) \subseteq Merged(x[1], x[2]).emissions)
    /\ [][\A i \in DOMAIN sockets :
            (sockets[i].readyState # "CLOSED" /\ sockets'[i].readyState = "CLOSED") =>
                /\ sockets'[i].completed
                /\ \A j \in DOMAIN sockets \ {i} : sockets'[j] = sockets[j]
                /\ LET x == <<sockets[i].batch, sockets[i].sub>> IN
                   Merged(x[1], x[2])'.completed <=>
                     \A j \in Inner(x) \ {i} : sockets[j].readyState = "CLOSED"]_vars

\* C20 witness: a subscription with one socket closed and its stream
\* complete, a sibling open that has emitted, and the merged stream open.
C20_Witness ==
    \E i \in DOMAIN sockets : \E j \in DOMAIN sockets :
        /\ Siblings(i, j)
        /\ sockets[i].readyState = "CLOSED"
        /\ sockets[i].completed
        /\ sockets[j].readyState = "OPEN"
        /\ Len(sockets[j].emitted) = 1
        /\ ~Merged(sockets[i].batch, sockets[i].sub).completed

\* C19 (as claimed): every socket on which close(1001) was never called
\* belongs to the batch of the latest call of query.
C19_LiveSocketsAreOfLatestBatch ==
    \A i \in DOMAIN sockets :
        GoingAway \notin Range(sockets[i].closeCodes) =>
            sockets[i].batch = Len(batches)

\* C16 (as claimed): the output of every answered REST target that carries
\* a free-text query is a table (an object of columns and rows, or the
\* empty object for an empty payload), whatever the target's kind and
\* whatever the provider returned.
C16_FreeTextYieldsTable ==
    \A b \in RestBatches : \A k \in DOMAIN batches[b].requests :
        LET r == batches[b].requests[k] IN
        (r.free /\ r.promise.state = "fulfilled") =>
            /\ IsObj(r.promise.value)
            /\ DOMAIN r.promise.value.obj \in { {}, {"columns", "rows"} }

\* The direct calls of constructQuery that have returned.
Built == { n \in DOMAIN calls : calls[n].fn = "constructQuery" /\ calls[n].state = "returned" }

\* s is the whole number of seconds in ms milliseconds.
IsUnixSeconds(s, ms) == s * 1000 <= ms /\ ms < (s + 1) * 1000

\* The fields of obj other than the optional ones.
Required(obj, optional) == DOMAIN obj \ optional

\* field is in made exactly when it is in given, with the same value.
Copied(made, given, field) ==
    /\ field \in DOMAIN made <=> field \in DOMAIN given
    /\ field \in DOMAIN given => made[field] = given[field]

\* C17: every call of constructQuery returns an object.  For a candle target
\* it holds symbol, resolution, from, to and refId, with from and to the
\* whole unix seconds of the range's ends; for a metric target symbol,
\* metric and refId; for any other type, unknown or absent, symbol and
\* refId.  symbol is the target's symbol in capitals, absent when the target
\* has none, and upper-casing it again changes nothing.
C17_ConstructQueryShape ==
    \A n \in Built :
        LET target == calls[n].target
            range == calls[n].range
            made == calls[n].result
            kind == IF "type" \in DOMAIN target THEN target.type ELSE "none"
        IN  /\ "symbol" \in DOMAIN made <=> "symbol" \in DOMAIN target
            /\ "symbol" \in DOMAIN target =>
                  /\ IsUpperCased(made.symbol, target.symbol)
                  /\ toUpperCase(made.symbol) = made.symbol
            /\ CASE kind = "candle" ->
                      /\ Required(made, {"symbol", "resolution"}) = {"from", "to", "refId"}
                      /\ Copied(made, target, "resolution")
                      /\ IsUnixSeconds(made.from, range.from)
                      /\ IsUnixSeconds(made.to, range.to)
                 [] kind = "metric" ->
                      /\ Required(made, {"symbol", "metric"}) = {"refId"}
                      /\ Copied(made, target, "metric")
                 [] OTHER -> Required(made, {"symbol"}) = {"refId"}

\* C17 witness: a candle target with a lower-case symbol built over a range
\* whose ends are not whole seconds, and the call has returned.
C17_Witness ==
    \E n \in Built :
        /\ calls[n].target = [refId |-> Str("A"), symbol |-> aapl, type |-> "candle",
                              resolution |-> "D"]
        /\ calls[n].range = [from |-> 1500, to |-> 3999]
        /\ calls[n].result.from = 1
        /\ calls[n].result.to = 3
        /\ calls[n].result.symbol = <<"A", "A", "P", "L">>

\* The direct calls of tsResponse on a candle payload that have returned.
Normalized ==
    { n \in DOMAIN calls : /\ calls[n].fn = "tsResponse"
                           /\ calls[n].type = "candle"
                           /\ calls[n].state = "returned" }

\* C18: tsResponse of a candle payload with arrays t, o and c returns
\* exactly two series, "open price" and then "close price"; each has one
\* sample per element of t, in the order of t, the i-th being
\* (o[i], t[i] * 1000) in the first and (c[i], t[i] * 1000) in the second.
C18_CandleSeries ==
    \A n \in Normalized :
        LET payload == calls[n].data.obj
            result == calls[n].result
        IN  /\ result.ok
            /\ IsArr(result.value)
            /\ Len(result.value.arr) = 2
            /\ result.value.arr[1].target = "open price"
            /\ result.value.arr[2].target = "close price"
            /\ \A f \in 1..2 :
                  LET points == result.value.arr[f].datapoints
                      prices == IF f = 1 THEN payload.o ELSE payload.c
                  IN  /\ Len(points) = Len(payload.t)
                      /\ \A i \in DOMAIN points :
                            points[i] = <<prices[i], payload.t[i] * 1000>>

\* C18 witness: a payload of two candles whose times are not in ascending
\* order, normalized.
C18_Witness ==
    \E n \in Normalized :
        /\ calls[n].data = Obj([t |-> <<200, 100>>, o |-> <<10, 11>>, c |-> <<12, 13>>])
        /\ calls[n].result.value.arr[1].datapoints = << <<10, 200000>>, <<11, 100000>> >>
        /\ calls[n].result.value.arr[2].datapoints = << <<12, 200000>>, <<13, 100000>> >>

====
